---- MODULE Spec2Model ----
(***************************************************************************)
(* Page Quality Analyzer (src/server.js): the POST /api/analyze handler,   *)
(* its bounded-concurrency dispatcher checkResources, the two-phase probe  *)
(* fetchWithHeadThenGet and the merge of probe results onto the resource   *)
(* list.                                                                   *)
(*                                                                         *)
(* JavaScript objects are functions from field names to values; a field    *)
(* that an object does not have is outside its DOMAIN.  Object.assign({},  *)
(* a, b) is  b @@ a.  The handler runs on one event loop: everything       *)
(* between two awaits is one atomic action.                                *)
(***************************************************************************)
EXTENDS Integers, Sequences, FiniteSets, TLC

VARIABLES pc, rawResources, resources, toCheckLimited, queue, workers,
          results, probes, finalResources, summary, recommendations,
          completed, lastProbe

\* completed and lastProbe are history: completed lists, in order of
\* completion, the position in `probes` of each probe that has returned;
\* lastProbe is what the network did for the one that returned last.
vars == <<pc, rawResources, resources, toCheckLimited, queue, workers,
          results, probes, finalResources, summary, recommendations,
          completed, lastProbe>>

-----------------------------------------------------------------------------
(* Bounds of the model and scaled program constants.                       *)

\* Longest list of references extracted from one page.
MaxRefs == 4

\* src/server.js:13 has CONCURRENCY = 8; scaled down.
CONCURRENCY == 2

\* src/server.js:178 has MAX_CHECK = 300; scaled down.
MAX_CHECK == 3

\* src/server.js:204, the slow threshold in ms.
SLOW_MS == 2000

\* JavaScript null in a string-valued field (resolved).
null == "null"

\* A string built by a template literal is the tuple of its parts, a plain
\* string the tuple of itself; null in such a field (duplicateOf) is <<>>.
NullKey == <<>>

\* JavaScript null in a number-valued field (httpStatus, timeMs).  Every read
\* of such a field in the code is behind a null or truthiness test.
NullNum == -1

-----------------------------------------------------------------------------
(* Strings.  A raw attribute value is an atomic string in the state; Chars  *)
(* spells it out so that trim, toLowerCase and startsWith are computed.     *)

Chars(s) ==
  CASE s = "/about"              -> <<"/", "a", "b", "o", "u", "t">>
    [] s = "about"               -> <<"a", "b", "o", "u", "t">>
    [] s = "/b"                  -> <<"/", "b">>
    [] s = " JavaScript:void(0)" -> <<" ", "J", "a", "v", "a", "S", "c", "r", "i", "p", "t",
                                      ":", "v", "o", "i", "d", "(", "0", ")">>
    [] s = "mailto://["          -> <<"m", "a", "i", "l", "t", "o", ":", "/", "/", "[">>
    [] s = "http://["            -> <<"h", "t", "t", "p", ":", "/", "/", "[">>
    [] s = "javascript:"         -> <<"j", "a", "v", "a", "s", "c", "r", "i", "p", "t", ":">>
    [] s = "mailto:"             -> <<"m", "a", "i", "l", "t", "o", ":">>
    [] s = "tel:"                -> <<"t", "e", "l", ":">>
    [] s = "#"                   -> <<"#">>
    [] s = ""                    -> <<>>

LowerChar(c) ==
  CASE c = "J" -> "j"
    [] c = "S" -> "s"
    [] OTHER   -> c

ToLowerCase(cs) == [i \in 1..Len(cs) |-> LowerChar(cs[i])]

RECURSIVE TrimStart(_)
TrimStart(cs) ==
  IF Len(cs) > 0 /\ Head(cs) = " " THEN TrimStart(Tail(cs)) ELSE cs

RECURSIVE TrimEnd(_)
TrimEnd(cs) ==
  IF Len(cs) > 0 /\ cs[Len(cs)] = " " THEN TrimEnd(SubSeq(cs, 1, Len(cs) - 1)) ELSE cs

Trim(cs) == TrimEnd(TrimStart(cs))

StartsWith(cs, prefix) ==
  /\ Len(cs) >= Len(prefix)
  /\ SubSeq(cs, 1, Len(prefix)) = prefix

\* isSkippableHref(href)
isSkippableHref(href) ==
  IF href = "" THEN TRUE
  ELSE LET l == ToLowerCase(Trim(Chars(href))) IN
         \/ StartsWith(l, Chars("javascript:"))
         \/ StartsWith(l, Chars("mailto:"))
         \/ StartsWith(l, Chars("tel:"))
         \/ l = Chars("#")
         \/ l = Chars("")

\* resolveUrl(base, relative) for base https://example.com/ : the href that
\* new URL(relative, base) yields, null where the constructor throws (a
\* host that opens a bracket and never closes it).
resolveUrl(relative) ==
  CASE relative = "/about"              -> "https://example.com/about"
    [] relative = "about"               -> "https://example.com/about"
    [] relative = "/b"                  -> "https://example.com/b"
    [] relative = " JavaScript:void(0)" -> "javascript:void(0)"
    [] relative = "mailto://["          -> null
    [] relative = "http://["            -> null

\* The references a page of the model can hold: { type, raw } as pushed by
\* the extraction loops.
Refs ==
  { [type |-> "anchor", raw |-> "/about"],
    [type |-> "image",  raw |-> "about"],
    [type |-> "script", raw |-> "/b"],
    [type |-> "anchor", raw |-> " JavaScript:void(0)"],
    [type |-> "anchor", raw |-> "mailto://["],
    [type |-> "iframe", raw |-> "http://["] }

Inputs == UNION { [1..n -> Refs] : n \in 0..MaxRefs }

-----------------------------------------------------------------------------
(* Objects.                                                                *)

\* Object.assign({}, a, b): b's own fields win.
Assign(a, b) == b @@ a

\* o.f for a number-valued field: undefined and null read alike in every
\* test the code makes (x != null, x && ...).
Num(o, f) == IF f \in DOMAIN o THEN o[f] ELSE NullNum

Min(a, b) == IF a < b THEN a ELSE b

-----------------------------------------------------------------------------
(* app.post('/api/analyze'): resolve and filter.                           *)

\* The Map `seen` after the first n references: resolved |-> key of the first
\* reference with that resolved value (null is a key like any other).
RECURSIVE SeenAfter(_, _)
SeenAfter(raw, n) ==
  IF n = 0 THEN << >>
  ELSE LET prev     == SeenAfter(raw, n - 1)
           r        == raw[n]
           resolved == resolveUrl(r.raw)
           key      == IF resolved # null THEN <<resolved>> ELSE <<r.type, r.raw, n - 1>>
       IN  IF resolved \in DOMAIN prev THEN prev ELSE (resolved :> key) @@ prev

\* rawResources.map((r, idx) => ...), idx = n - 1.
Resource(raw, n) ==
  LET r        == raw[n]
      resolved == resolveUrl(r.raw)
      seen     == SeenAfter(raw, n - 1)
      key      == IF resolved # null THEN <<resolved>> ELSE <<r.type, r.raw, n - 1>>
  IN  [ id          |-> key,
        type        |-> r.type,
        raw         |-> r.raw,
        resolved    |-> resolved,
        skippable   |-> isSkippableHref(r.raw),
        duplicateOf |-> IF resolved \in DOMAIN seen THEN seen[resolved] ELSE NullKey ]

Resources(raw) == [n \in 1..Len(raw) |-> Resource(raw, n)]

\* resources.filter(r => r.resolved && !r.skippable)
Checkable(r) == r.resolved # null /\ r.resolved # "" /\ ~r.skippable

ToCheck(rs) == SelectSeq(rs, Checkable)

\* Variant: the slice is forgotten.
ToCheckUnlimited(rs) == ToCheck(rs)

\* toCheck.slice(0, MAX_CHECK)
ToCheckLimited(rs) == SubSeq(ToCheck(rs), 1, Min(MAX_CHECK, Len(ToCheck(rs))))

-----------------------------------------------------------------------------
(* checkResources: the worker pool.                                        *)

WorkerDone == [pc |-> "done"]

\* The requests a probe has made so far, oldest first: a request sent and not
\* yet answered, and a request answered (axios resolved or rejected; status
\* is NullNum when there was no response) ms after it was sent.
Sent(method) == [method |-> method, outcome |-> "pending"]
Answered(method, outcome, status, ms) ==
  [method |-> method, outcome |-> outcome, status |-> status, ms |-> ms]

\* The worker that took the k-th item off the queue.
Numbered(worker, k) == IF worker.pc = "done" THEN worker ELSE worker @@ [k |-> k]

\* Variant: the loop test shifts too (while (queue.shift())), so every pass
\* drops the item at the head of the queue and probes the one behind it.
WorkerLoopShiftsTwice(q) ==
  IF Len(q) > 1
    THEN [ queue  |-> Tail(Tail(q)),
           worker |-> [pc |-> "head", item |-> q[2], start |-> 0,
                       attempts |-> <<Sent("HEAD")>>],
           probed |-> <<q[2]>> ]
    ELSE [ queue |-> << >>, worker |-> [pc |-> "done"], probed |-> << >> ]

\* Variant: a worker that finds the queue empty waits for the other workers
\* instead of leaving its loop.
WorkerLoopWaits(q) ==
  IF Len(q) > 0
    THEN [ queue  |-> Tail(q),
           worker |-> [pc |-> "head", item |-> Head(q), start |-> 0,
                       attempts |-> <<Sent("HEAD")>>],
           probed |-> <<Head(q)>> ]
    ELSE [ queue |-> q, worker |-> [pc |-> "waiting"], probed |-> << >> ]

\* One pass of  while (queue.length) { const item = queue.shift(); ...
\* await fetchWithHeadThenGet(item.resolved)  up to the first await, which is
\* the HEAD request (start = Date.now() is the origin of the worker's clock).
\* `if (!item) break` never breaks: the items are objects.
WorkerLoop(q) ==
  IF Len(q) > 0
    THEN [ queue  |-> Tail(q),
           worker |-> [pc |-> "head", item |-> Head(q), start |-> 0,
                       attempts |-> <<Sent("HEAD")>>],
           probed |-> <<Head(q)>> ]
    ELSE [ queue |-> q, worker |-> WorkerDone, probed |-> << >> ]

\* Variant: one worker per item (resources.map(async item => ...)), no pool.
RECURSIVE LaunchPerItem(_, _, _, _)
LaunchPerItem(w, q, ws, ps) ==
  IF Len(q) = 0 THEN [queue |-> q, workers |-> ws, probes |-> ps]
  ELSE LaunchPerItem(w + 1, Tail(q),
                     ws @@ (w :> [pc |-> "head", item |-> Head(q), start |-> 0,
                                  attempts |-> <<Sent("HEAD")>>, k |-> Len(ps) + 1]),
                     ps \o <<Head(q)>>)

\* new Array(CONCURRENCY).fill(null).map(async () => ...): each worker runs
\* synchronously to its first await before the next one is created.
RECURSIVE Launch(_, _, _, _)
Launch(w, q, ws, ps) ==
  IF w > CONCURRENCY THEN [queue |-> q, workers |-> ws, probes |-> ps]
  ELSE LET st == WorkerLoop(q)
       IN  Launch(w + 1, st.queue, ws @@ (w :> Numbered(st.worker, Len(ps) + 1)),
                  ps \o st.probed)

\* checkResources(resources) up to  await Promise.all(workers).
StartCheck(items) == Launch(1, items, << >>, << >>)

InFlight == { w \in DOMAIN workers : workers[w].pc \in {"head", "get"} }

-----------------------------------------------------------------------------
(* The handler up to  await checkResources(toCheckLimited).                *)

Empty == << >>

Init ==
  /\ pc = "start"
  /\ rawResources \in Inputs
  /\ resources = Empty
  /\ toCheckLimited = Empty
  /\ queue = Empty
  /\ workers = Empty
  /\ results = Empty
  /\ probes = Empty
  /\ finalResources = Empty
  /\ summary = Empty
  /\ recommendations = Empty
  /\ completed = Empty
  /\ lastProbe = Empty

Analyze ==
  /\ pc = "start"
  /\ LET rs == Resources(rawResources)
         st == StartCheck(ToCheckLimited(rs))
     IN  /\ resources' = rs
         /\ toCheckLimited' = ToCheckLimited(rs)
         /\ queue' = st.queue
         /\ workers' = st.workers
         /\ probes' = st.probes
  /\ results' = Empty
  /\ pc' = "checking"
  /\ UNCHANGED <<rawResources, finalResources, summary, recommendations,
                 completed, lastProbe>>

-----------------------------------------------------------------------------
(* fetchWithHeadThenGet, one await at a time.  The network answers each    *)
(* request with a success (axios resolves: a status its validateStatus     *)
(* accepts) or a failure (axios rejects: a response with a status of 400   *)
(* or more, or no response at all), after some duration.                   *)

\* How long a request that is answered takes, and how long one that fails.
OkDurations == {50, 2500}
FailDurations == {50}
OkStatuses == {200}
ErrStatuses == {404}

\* How a HEAD request fails: with a response that axios rejects.
HeadErrStatuses == {405}

\* The probe's requests once the pending one is answered.
Answer(attempts, outcome, status, ms) ==
  [attempts EXCEPT ![Len(attempts)] = Answered(attempts[Len(attempts)].method,
                                               outcome, status, ms)]

\* Variant: the result of a failed probe is not collected.
PushUnlessError(w, data) ==
  LET st == WorkerLoop(queue)
  IN  /\ results' = IF data.status = "error" THEN results
                    ELSE Append(results, Assign(workers[w].item, data))
      /\ queue' = st.queue
      /\ workers' = [workers EXCEPT ![w] = Numbered(st.worker, Len(probes) + 1)]
      /\ probes' = probes \o st.probed
      /\ completed' = Append(completed, workers[w].k)

\* results.push(Object.assign({}, item, data)), then the worker's loop goes
\* round: the next shift happens in the same turn of the event loop.
Push(w, data) ==
  LET st == WorkerLoop(queue)
  IN  /\ results' = Append(results, Assign(workers[w].item, data))
      /\ queue' = st.queue
      /\ workers' = [workers EXCEPT ![w] = Numbered(st.worker, Len(probes) + 1)]
      /\ probes' = probes \o st.probed
      /\ completed' = Append(completed, workers[w].k)

\* Variant: the fallback's time is taken from the start of the probe.
GetResultFromStart(start, start2, now, code) ==
  [ status |-> "ok", httpStatus |-> code, timeMs |-> now - start,
    headers |-> "headers" ]

\* Variant: the status of the failed fallback is dropped.
GetErrorNoCode(start, start2, now, code) ==
  [ status |-> "error", httpStatus |-> NullNum,
    error |-> "no response", timeMs |-> now - start2 ]

\* The object returned at lines 33-38.
HeadResult(start, now, code) ==
  [ status |-> "ok", httpStatus |-> code, timeMs |-> now - start,
    headers |-> "headers" ]

\* The object returned at lines 53-59.
GetResult(start, start2, now, code) ==
  [ status |-> "ok", httpStatus |-> code, timeMs |-> now - start2,
    headers |-> "headers" ]

\* The object returned at lines 61-70.  code stays null unless the error
\* carries a response.
GetError(start, start2, now, code) ==
  [ status     |-> "error",
    httpStatus |-> code,
    error      |-> IF code = NullNum THEN "no response"
                                     ELSE "Request failed with status code",
    timeMs     |-> now - start2 ]

\* Variant: the GET is sent after a HEAD that succeeded, too.
HeadOkThenGet(w) ==
  /\ pc = "checking"
  /\ workers[w].pc = "head"
  /\ \E d \in OkDurations, code \in OkStatuses :
       workers' = [workers EXCEPT ![w] =
                     [ pc       |-> "get",
                       item     |-> workers[w].item,
                       k        |-> workers[w].k,
                       start    |-> workers[w].start,
                       start2   |-> workers[w].start + d,
                       attempts |-> Append(Answer(workers[w].attempts, "ok", code, d),
                                           Sent("GET")) ]]
  /\ UNCHANGED <<pc, rawResources, resources, toCheckLimited, queue, results,
                 probes, finalResources, summary, recommendations,
                 completed, lastProbe>>

\* axios.head resolves: lines 31-38.
HeadOk(w) ==
  /\ pc = "checking"
  /\ workers[w].pc = "head"
  /\ \E d \in OkDurations, code \in OkStatuses :
       LET now == workers[w].start + d
       IN  /\ Push(w, HeadResult(workers[w].start, now, code))
           /\ lastProbe' = [ k |-> workers[w].k,
                             attempts |-> Answer(workers[w].attempts, "ok", code, d) ]
  /\ UNCHANGED <<pc, rawResources, resources, toCheckLimited,
                 finalResources, summary, recommendations>>

\* axios.head rejects: lines 39-43, start2 = Date.now() and the GET is sent.
HeadFail(w) ==
  /\ pc = "checking"
  /\ workers[w].pc = "head"
  /\ \E d \in FailDurations, code \in HeadErrStatuses :
       workers' = [workers EXCEPT ![w] =
                     [ pc       |-> "get",
                       item     |-> workers[w].item,
                       k        |-> workers[w].k,
                       start    |-> workers[w].start,
                       start2   |-> workers[w].start + d,
                       attempts |-> Append(Answer(workers[w].attempts, "fail", code, d),
                                           Sent("GET")) ]]
  /\ UNCHANGED <<pc, rawResources, resources, toCheckLimited, queue, results,
                 probes, finalResources, summary, recommendations,
                 completed, lastProbe>>

\* axios.get resolves: lines 49-59.
GetOk(w) ==
  /\ pc = "checking"
  /\ workers[w].pc = "get"
  /\ \E d \in OkDurations, code \in OkStatuses :
       LET now == workers[w].start2 + d
       IN  /\ Push(w, GetResult(workers[w].start, workers[w].start2, now, code))
           /\ lastProbe' = [ k |-> workers[w].k,
                             attempts |-> Answer(workers[w].attempts, "ok", code, d) ]
  /\ UNCHANGED <<pc, rawResources, resources, toCheckLimited,
                 finalResources, summary, recommendations>>

\* axios.get rejects: lines 60-70.
GetFail(w) ==
  /\ pc = "checking"
  /\ workers[w].pc = "get"
  /\ \E d \in FailDurations, code \in ErrStatuses \cup {NullNum} :
       LET now == workers[w].start2 + d
       IN  /\ Push(w, GetError(workers[w].start, workers[w].start2, now, code))
           /\ lastProbe' = [ k |-> workers[w].k,
                             attempts |-> Answer(workers[w].attempts, "fail", code, d) ]
  /\ UNCHANGED <<pc, rawResources, resources, toCheckLimited,
                 finalResources, summary, recommendations>>

\* The catch of checkResources, lines 93-95: the awaited probe rejects.
\* fetchWithHeadThenGet catches the failures of both of its requests, so this
\* is no step of Next; SpecThrow adds it.  timeMs: null is a field of the
\* pushed object, httpStatus is not.
ProbeThrows(w) ==
  /\ pc = "checking"
  /\ workers[w].pc \in {"head", "get"}
  /\ Push(w, [ status |-> "error", error |-> "exception", timeMs |-> NullNum ])
  /\ lastProbe' = [ k |-> workers[w].k, attempts |-> workers[w].attempts ]
  /\ UNCHANGED <<pc, rawResources, resources, toCheckLimited,
                 finalResources, summary, recommendations>>

-----------------------------------------------------------------------------
(* The handler after  await checkResources: merge and summary.             *)

\* new Map(checked.map(c => [c.resolved, c])): a later entry replaces an
\* earlier one with the same key.
RECURSIVE CheckedMap(_)
CheckedMap(checked) ==
  IF Len(checked) = 0 THEN << >>
  ELSE LET c == checked[Len(checked)]
       IN  (c.resolved :> c) @@ CheckedMap(SubSeq(checked, 1, Len(checked) - 1))

\* Variant: an entry that was not checked carries empty probe fields.
FinalResourceNullOutcome(r, checkedMap) ==
  IF r.resolved = null \/ r.resolved = ""
    THEN Assign(r, [status |-> "unresolved", note |-> "Could not resolve URL"])
  ELSE IF r.skippable
    THEN Assign(r, [status |-> "skipped", httpStatus |-> NullNum, timeMs |-> NullNum])
  ELSE IF r.resolved \in DOMAIN checkedMap
    THEN Assign(r, checkedMap[r.resolved])
  ELSE Assign(r, [status |-> "not_checked", httpStatus |-> NullNum, timeMs |-> NullNum])

\* The callback of resources.map at lines 185-199.
FinalResource(r, checkedMap) ==
  IF r.resolved = null \/ r.resolved = ""
    THEN Assign(r, [status |-> "unresolved", note |-> "Could not resolve URL"])
  ELSE IF r.skippable
    THEN Assign(r, [status |-> "skipped", note |-> "Skippable (mailto/tel/javascript/#)"])
  ELSE IF r.resolved \in DOMAIN checkedMap
    THEN Assign(r, checkedMap[r.resolved])
  ELSE Assign(r, [status |-> "not_checked", note |-> "Not checked (limit reached or queued)"])

\* Variant: the checked results followed by the resources never dispatched.
NotCheckable(r) == ~Checkable(r)
FinalResourcesConcat(rs, checked) ==
  checked \o [i \in 1..Len(SelectSeq(rs, NotCheckable)) |->
                Assign(SelectSeq(rs, NotCheckable)[i], [status |-> "skipped"])]

FinalResources(rs, checked) ==
  [i \in 1..Len(rs) |-> FinalResource(rs[i], CheckedMap(checked))]

\* Variant: broken by HTTP status alone.
IsBrokenByStatusOnly(r) ==
  Num(r, "httpStatus") # NullNum /\ Num(r, "httpStatus") >= 400

\* r => (r.status === 'error' || (r.httpStatus && r.httpStatus >= 400))
IsBroken(r) ==
  \/ r.status = "error"
  \/ (Num(r, "httpStatus") # NullNum /\ Num(r, "httpStatus") # 0 /\ Num(r, "httpStatus") >= 400)

\* r => r.timeMs != null && r.timeMs > 2000
IsSlow(r) == Num(r, "timeMs") # NullNum /\ Num(r, "timeMs") > SLOW_MS

\* r => r.skippable || (r.raw && r.raw.trim() === '')
IsUnnecessary(r) ==
  \/ r.skippable
  \/ (r.raw # "" /\ Trim(Chars(r.raw)) = Chars(""))

\* Variant: every timed result enters the average, failed probes too.
IsTimedAnyStatus(r) == Num(r, "timeMs") # NullNum

\* r => r.timeMs != null && r.status === 'ok'
IsTimed(r) == Num(r, "timeMs") # NullNum /\ r.status = "ok"

\* The forEach at lines 207-215: the number of entries pushed to duplicates.
RECURSIVE Duplicates(_, _)
Duplicates(final, n) ==
  IF n = 0 THEN [count |-> 0, seenResolved |-> {}]
  ELSE LET prev == Duplicates(final, n - 1)
           r    == final[n]
       IN  IF r.resolved = null \/ r.resolved = "" THEN prev
           ELSE IF r.resolved \in prev.seenResolved
             THEN [prev EXCEPT !.count = @ + 1]
             ELSE [prev EXCEPT !.seenResolved = @ \cup {r.resolved}]

RECURSIVE SumTimes(_)
SumTimes(times) == IF Len(times) = 0 THEN 0 ELSE Head(times).timeMs + SumTimes(Tail(times))

\* Math.round(x / n) for x >= 0, n > 0: halves round up.
RoundDiv(x, n) == (2 * x + n) \div (2 * n)

\* avgResponse, lines 218-222.
AvgResponse(final) ==
  LET times == SelectSeq(final, IsTimed)
  IN  IF Len(times) = 0 THEN NullNum ELSE RoundDiv(SumTimes(times), Len(times))

Summary(final, limited) ==
  [ totalResources    |-> Len(final),
    checked           |-> Len(limited),
    brokenCount       |-> Len(SelectSeq(final, IsBroken)),
    slowCount         |-> Len(SelectSeq(final, IsSlow)),
    duplicateCount    |-> Duplicates(final, Len(final)).count,
    unnecessaryCount  |-> Len(SelectSeq(final, IsUnnecessary)),
    averageResponseMs |-> AvgResponse(final) ]

\* Variant: the advice on slow resources comes first.
RecommendationsSlowFirst(s) ==
  (IF s.slowCount # 0 THEN <<"Investigate slow resources">> ELSE << >>)
  \o (IF s.brokenCount # 0 THEN <<"Fix or remove broken resources">> ELSE << >>)
  \o (IF s.duplicateCount # 0 THEN <<"Remove duplicate links/resources">> ELSE << >>)
  \o (IF s.unnecessaryCount # 0 THEN <<"Remove unnecessary placeholders">> ELSE << >>)

\* The spread at lines 238-243.
Recommendations(s) ==
  (IF s.brokenCount # 0 THEN <<"Fix or remove broken resources">> ELSE << >>)
  \o (IF s.duplicateCount # 0 THEN <<"Remove duplicate links/resources">> ELSE << >>)
  \o (IF s.slowCount # 0 THEN <<"Investigate slow resources">> ELSE << >>)
  \o (IF s.unnecessaryCount # 0 THEN <<"Remove unnecessary placeholders">> ELSE << >>)

\* Promise.all(workers) resolves once every worker has left its loop; the
\* handler then runs to res.json.
Aggregate ==
  /\ pc = "checking"
  /\ \A w \in DOMAIN workers : workers[w].pc = "done"
  /\ LET final == FinalResources(resources, results)
     IN  /\ finalResources' = final
         /\ summary' = Summary(final, toCheckLimited)
         /\ recommendations' = Recommendations(Summary(final, toCheckLimited))
  /\ pc' = "done"
  /\ UNCHANGED <<rawResources, resources, toCheckLimited, queue, workers,
                 results, probes, completed, lastProbe>>

Next ==
  \/ Analyze
  \/ \E w \in DOMAIN workers : HeadOk(w)
  \/ \E w \in DOMAIN workers : HeadFail(w)
  \/ \E w \in DOMAIN workers : GetOk(w)
  \/ \E w \in DOMAIN workers : GetFail(w)
  \/ Aggregate

Spec == Init /\ [][Next]_vars

\* The next step of worker w's probe: its pending request settles.
ProbeStep(w) ==
  /\ w \in DOMAIN workers
  /\ (HeadOk(w) \/ HeadFail(w) \/ GetOk(w) \/ GetFail(w))

\* Every request is answered or times out (DEFAULT_TIMEOUT), and the event
\* loop runs every continuation that is ready: no worker's pending request
\* stays pending for ever.
FairSpec ==
  Init /\ [][Next]_vars /\ \A w \in 1..CONCURRENCY : WF_vars(ProbeStep(w))

\* The same program with a probe that may also reject.
NextThrow ==
  \/ Next
  \/ \E w \in DOMAIN workers : ProbeThrows(w)

SpecThrow == Init /\ [][NextThrow]_vars

-----------------------------------------------------------------------------
(* Vocabulary of the properties.                                           *)

ItemFields == {"id", "type", "raw", "resolved", "skippable", "duplicateOf"}

\* The dispatched item a result was built from.
ItemOf(res) == [f \in ItemFields |-> res[f]]

CountOf(seq, x) == Cardinality({i \in DOMAIN seq : seq[i] = x})

\* checkResources has returned: every worker has left its loop.
Returned == pc # "start" /\ \A w \in DOMAIN workers : workers[w].pc = "done"

\* Positions of the input whose reference resolves and is not skippable.
CheckableIdx ==
  { i \in DOMAIN rawResources :
      /\ resolveUrl(rawResources[i].raw) # null
      /\ ~isSkippableHref(rawResources[i].raw) }

\* Rank of position i among the checkable positions, in discovery order.
Rank(i) == Cardinality({ j \in CheckableIdx : j <= i })

\* First position of the input with the same resolved URL as position i.
FirstOf(i) ==
  CHOOSE j \in DOMAIN rawResources :
    /\ resolveUrl(rawResources[j].raw) = resolveUrl(rawResources[i].raw)
    /\ \A k \in 1..(j - 1) :
         resolveUrl(rawResources[k].raw) # resolveUrl(rawResources[i].raw)

-----------------------------------------------------------------------------
\* C1: in every state the number of probes started and not yet completed is
\* at most CONCURRENCY and at most the number of items given to
\* checkResources.
C1_InFlightBounded ==
  /\ Len(probes) - Len(results) <= CONCURRENCY
  /\ Len(probes) - Len(results) <= Len(toCheckLimited)
  /\ Cardinality(InFlight) = Len(probes) - Len(results)

\* The pool is saturated while items still wait in the queue.
C1_Witness ==
  /\ Len(probes) - Len(results) = CONCURRENCY
  /\ Len(queue) > 0
  /\ Len(toCheckLimited) > CONCURRENCY

\* C2: when checkResources returns, every input item was handed to the probe
\* exactly once, in queue order, and the results hold exactly one result per
\* input item (as many results built from an item as the input holds copies
\* of it), whatever the probes' outcomes and order of completion.
C2_OneResultPerItem ==
  Returned =>
    /\ probes = toCheckLimited
    /\ queue = Empty
    /\ Len(results) = Len(toCheckLimited)
    /\ \A i \in DOMAIN toCheckLimited :
         CountOf([k \in DOMAIN results |-> ItemOf(results[k])], toCheckLimited[i])
           = CountOf(toCheckLimited, toCheckLimited[i])

\* More items than workers, results out of input order, a probe that threw.
C2_Witness ==
  /\ Returned
  /\ Len(toCheckLimited) > CONCURRENCY
  /\ ItemOf(results[1]) # toCheckLimited[1]
  /\ \E k \in DOMAIN results : "httpStatus" \notin DOMAIN results[k]
  /\ \E k \in DOMAIN results : results[k].status = "ok"

\* C3: in the final list, the first occurrence of a resolved URL has
\* duplicateOf null and every later occurrence has duplicateOf equal to the
\* id of the first occurrence.
C3_DuplicateOfFirst ==
  pc = "done" =>
    \A i \in DOMAIN finalResources :
      finalResources[i].resolved # null =>
        IF FirstOf(i) = i
          THEN finalResources[i].duplicateOf = NullKey
          ELSE finalResources[i].duplicateOf = finalResources[FirstOf(i)].id

\* C4: in the final list, a set duplicateOf is never the entry's own id and
\* is the id of an entry at a strictly earlier position.
C4_DuplicateOfEarlier ==
  pc = "done" =>
    \A i \in DOMAIN finalResources :
      finalResources[i].duplicateOf # NullKey =>
        /\ finalResources[i].duplicateOf # finalResources[i].id
        /\ \E j \in 1..(i - 1) : finalResources[j].id = finalResources[i].duplicateOf

\* C5: the ids assigned within one run are pairwise distinct, in the
\* resource list and in the final result list.
C5_IdsDistinct ==
  /\ pc # "start" =>
       \A i, j \in DOMAIN resources : i # j => resources[i].id # resources[j].id
  /\ pc = "done" =>
       \A i, j \in DOMAIN finalResources :
         i # j => finalResources[i].id # finalResources[j].id

\* C6: the final list is as long as the input and its i-th entry is the
\* entry of the i-th input reference (its resolved URL and its skippable
\* flag), whatever order the probes completed in.
C6_SameLengthAndOrder ==
  pc = "done" =>
    /\ Len(finalResources) = Len(rawResources)
    /\ \A i \in DOMAIN rawResources :
         /\ finalResources[i].resolved = resolveUrl(rawResources[i].raw)
         /\ finalResources[i].skippable = isSkippableHref(rawResources[i].raw)

\* Two probes completed against dispatch order and an entry was not probed.
C6_Witness ==
  /\ pc = "done"
  /\ Len(results) >= 2
  /\ ItemOf(results[1]) # toCheckLimited[1]
  /\ results[1].resolved # results[2].resolved
  /\ \E i \in DOMAIN finalResources : finalResources[i].status = "skipped"
  /\ finalResources[1].status = "unresolved"

\* C7: the i-th final entry carries the type and raw value of the i-th input
\* reference.
C7_TypeAndRawKept ==
  pc = "done" =>
    \A i \in DOMAIN rawResources :
      /\ finalResources[i].type = rawResources[i].type
      /\ finalResources[i].raw = rawResources[i].raw

\* C8: with more than MAX_CHECK checkable items, the k-th probe is for the
\* k-th checkable item in discovery order, no more than MAX_CHECK probes are
\* ever started, and exactly MAX_CHECK have run when the pool returns.
C8_CapExact ==
  (pc # "start" /\ Cardinality(CheckableIdx) > MAX_CHECK) =>
    /\ Len(probes) <= MAX_CHECK
    /\ \A k \in DOMAIN probes :
         \E i \in CheckableIdx : Rank(i) = k /\ probes[k] = resources[i]
    /\ Returned => (Len(probes) = MAX_CHECK /\ Len(results) = MAX_CHECK)

\* The pool has returned on a page with more checkable items than the cap,
\* the item beyond the cap being one no probe was run for.
C8_Witness ==
  /\ pc = "done"
  /\ Cardinality(CheckableIdx) > MAX_CHECK
  /\ \E i \in CheckableIdx :
       /\ Rank(i) > MAX_CHECK
       /\ \A k \in DOMAIN probes : probes[k].resolved # resources[i].resolved

\* C9: every checkable item beyond the cap ends not_checked and carries no
\* probe outcome.
C9_BeyondCapNotChecked ==
  pc = "done" =>
    \A i \in CheckableIdx :
      Rank(i) > MAX_CHECK =>
        /\ finalResources[i].status = "not_checked"
        /\ "httpStatus" \notin DOMAIN finalResources[i]
        /\ "timeMs" \notin DOMAIN finalResources[i]

\* C10: a reference the classifier flags is never handed to the dispatcher
\* and ends 'skipped', whether or not it resolved.
C10_SkippableSkipped ==
  /\ \A k \in DOMAIN probes : ~isSkippableHref(probes[k].raw)
  /\ pc = "done" =>
       \A i \in DOMAIN rawResources :
         isSkippableHref(rawResources[i].raw) => finalResources[i].status = "skipped"


-----------------------------------------------------------------------------
(* The probe.                                                              *)

\* The result of the probe that returned last, and the requests it made.
LastResult == results[Len(results)]
LastAttempts == lastProbe.attempts
ProbeReturned == lastProbe # Empty /\ Len(results) > 0

\* The last probe's HEAD failed and its GET succeeded / failed.
FellBackOk ==
  /\ ProbeReturned
  /\ Len(LastAttempts) = 2
  /\ LastAttempts[1].outcome = "fail"
  /\ LastAttempts[2].outcome = "ok"
FellBackFail ==
  /\ ProbeReturned
  /\ Len(LastAttempts) = 2
  /\ LastAttempts[1].outcome = "fail"
  /\ LastAttempts[2].outcome = "fail"

\* C11: when the HEAD fails and the GET succeeds, the probe's result is 'ok'
\* with the GET's HTTP status and the duration of the GET alone; the status
\* and the duration of the failed HEAD are no part of it.
C11_FallbackOkUsesGetOnly ==
  FellBackOk =>
    /\ LastResult.status = "ok"
    /\ LastResult.httpStatus = LastAttempts[2].status
    /\ LastResult.httpStatus # LastAttempts[1].status
    /\ LastResult.timeMs = LastAttempts[2].ms
    /\ LastAttempts[1].ms > 0

C11_Witness ==
  /\ FellBackOk
  /\ LastAttempts[2].ms = 2500
  /\ LastResult.timeMs = 2500

\* C12: when the HEAD and the GET both fail the probe still returns a result:
\* status 'error', the HTTP status of the GET's failure response or null when
\* there was none, an error message, and the duration of the GET alone.
C12_BothFailReturnsError ==
  FellBackFail =>
    /\ DOMAIN LastResult = ItemFields \cup {"status", "httpStatus", "error", "timeMs"}
    /\ LastResult.status = "error"
    /\ LastResult.httpStatus = LastAttempts[2].status
    /\ LastResult.error # ""
    /\ LastResult.timeMs = LastAttempts[2].ms
    /\ LastAttempts[1].ms > 0

C12_Witness ==
  /\ FellBackFail
  /\ LastAttempts[2].status = 404
  /\ LastResult.httpStatus = 404

\* The server answered the last probe's final request with an HTTP status of
\* 400 or more.
AnsweredWithErrorStatus ==
  /\ ProbeReturned
  /\ LastAttempts[Len(LastAttempts)].outcome # "pending"
  /\ LastAttempts[Len(LastAttempts)].status # NullNum
  /\ LastAttempts[Len(LastAttempts)].status >= 400

\* C13: a probe that the server answers with an HTTP status of 400 or more
\* is recorded with status 'ok' and that HTTP status, and is counted as
\* broken.
C13_ErrorStatusRecordedOk ==
  AnsweredWithErrorStatus =>
    /\ LastResult.status = "ok"
    /\ LastResult.httpStatus = LastAttempts[Len(LastAttempts)].status
    /\ IsBroken(LastResult)

-----------------------------------------------------------------------------
(* The summary.                                                            *)

\* Positions of the final list by status.
WithStatus(statuses) ==
  { i \in DOMAIN finalResources : finalResources[i].status \in statuses }
Unprobed == WithStatus({"unresolved", "skipped", "not_checked"})

\* Positions of the final list whose probe failed, or got a status >= 400.
ProbeFailedOrErrorStatus ==
  { i \in DOMAIN finalResources :
      \/ finalResources[i].status = "error"
      \/ /\ "httpStatus" \in DOMAIN finalResources[i]
         /\ finalResources[i].httpStatus # NullNum
         /\ finalResources[i].httpStatus >= 400 }

\* C14: averageResponseMs is null exactly when no final entry has status
\* 'ok'; otherwise it is a mean of measured times, within their range.
C14_AverageNullIffNoneOk ==
  pc = "done" =>
    /\ summary.averageResponseMs = NullNum <=> WithStatus({"ok"}) = {}
    /\ summary.averageResponseMs # NullNum =>
         /\ \E i \in WithStatus({"ok"}) :
              finalResources[i].timeMs <= summary.averageResponseMs
         /\ \E i \in WithStatus({"ok"}) :
              finalResources[i].timeMs >= summary.averageResponseMs

\* No entry succeeded and one failed with a measured time: no average.
C14_Witness ==
  /\ pc = "done"
  /\ WithStatus({"ok"}) = {}
  /\ WithStatus({"error"}) # {}
  /\ summary.averageResponseMs = NullNum

\* C15: brokenCount is the number of final entries whose probe failed or got
\* an HTTP status of 400 or more; no skipped, unresolved or not-checked entry
\* is among them.
C15_BrokenCount ==
  pc = "done" =>
    /\ summary.brokenCount = Cardinality(ProbeFailedOrErrorStatus)
    /\ ProbeFailedOrErrorStatus \cap Unprobed = {}

\* Four references: one probed fine, one skipped, one whose probe fails with
\* no HTTP status, one more that is not broken; brokenCount is 1.
C15_Witness ==
  /\ pc = "done"
  /\ Len(finalResources) = 4
  /\ finalResources[1].status = "ok"
  /\ finalResources[3].status = "skipped"
  /\ finalResources[4].status = "error"
  /\ finalResources[4].httpStatus = NullNum
  /\ summary.brokenCount = 1

\* The count each advice goes with, in the order of the advice.
Advice ==
  << [text |-> "Fix or remove broken resources",   count |-> "brokenCount"],
     [text |-> "Remove duplicate links/resources", count |-> "duplicateCount"],
     [text |-> "Investigate slow resources",       count |-> "slowCount"],
     [text |-> "Remove unnecessary placeholders",  count |-> "unnecessaryCount"] >>

\* C16: each advice is in the recommendations exactly when its count is
\* above zero, once, and the advice present is in the order broken,
\* duplicates, slow, unnecessary.
C16_RecommendationsMatchCounts ==
  pc = "done" =>
    /\ \A a \in DOMAIN Advice :
         CountOf(recommendations, Advice[a].text)
           = IF summary[Advice[a].count] > 0 THEN 1 ELSE 0
    /\ \A i, j \in DOMAIN recommendations :
         i < j => \E a, b \in DOMAIN Advice :
                    /\ a < b
                    /\ recommendations[i] = Advice[a].text
                    /\ recommendations[j] = Advice[b].text

C16_Witness ==
  /\ pc = "done"
  /\ Len(recommendations) = 4
  /\ summary.brokenCount > 0
  /\ summary.slowCount > 0

-----------------------------------------------------------------------------
(* The pool.                                                               *)

\* A worker with a request under way can take its next step whatever the
\* other workers are doing.
NoWorkerWaits ==
  \A w \in InFlight :
    ENABLED (HeadOk(w) \/ HeadFail(w) \/ GetOk(w) \/ GetFail(w))

\* Once the handler has gone past checkResources, every worker has seen the
\* queue empty and left its loop, and every dispatched item has its result.
ReturnedOnlyWhenDrained ==
  pc = "done" =>
    /\ queue = Empty
    /\ InFlight = {}
    /\ \A w \in DOMAIN workers : workers[w].pc = "done"
    /\ Len(results) = Len(toCheckLimited)

\* C17: with every request answered in the end and every worker's ready
\* step taken, checkResources, once called, returns for every input; no
\* worker waits on another, and the handler goes on only when the queue is
\* empty and no probe is under way.
C17_PoolReturns ==
  /\ [](NoWorkerWaits /\ ReturnedOnlyWhenDrained)
  /\ (pc = "checking") ~> Returned

\* Returned after more probes than there are workers.
C17_Witness ==
  /\ pc = "done"
  /\ Len(results) > CONCURRENCY
  /\ DOMAIN workers = 1..CONCURRENCY

-----------------------------------------------------------------------------
(* The final list.                                                         *)

\* C18: every final entry has one of the statuses unresolved, skipped, ok,
\* error, not_checked, the one that goes with its reference (unresolved: no
\* URL; skipped: a skippable one), and has the fields httpStatus and timeMs
\* exactly when the status is ok or error.
C18_OneClassification ==
  pc = "done" =>
    \A i \in DOMAIN finalResources :
      LET r == finalResources[i]
      IN  /\ r.status \in {"unresolved", "skipped", "ok", "error", "not_checked"}
          /\ r.status = "unresolved" <=> r.resolved = null
          /\ r.status = "skipped" <=> (r.resolved # null /\ r.skippable)
          /\ "httpStatus" \in DOMAIN r <=> r.status \in {"ok", "error"}
          /\ "timeMs" \in DOMAIN r <=> r.status \in {"ok", "error"}

C18_Witness ==
  /\ pc = "done"
  /\ WithStatus({"unresolved"}) # {}
  /\ WithStatus({"skipped"}) # {}
  /\ WithStatus({"ok"}) # {}
  /\ WithStatus({"error"}) # {}

-----------------------------------------------------------------------------
(* The order of a probe's requests.                                        *)

\* The requests of one probe: a HEAD first; a GET second exactly when the
\* HEAD has failed; nothing else.
HeadThenGet(attempts) ==
  /\ Len(attempts) \in {1, 2}
  /\ attempts[1].method = "HEAD"
  /\ Len(attempts) = 2 <=> attempts[1].outcome = "fail"
  /\ Len(attempts) = 2 => attempts[2].method = "GET"

\* C19: in every probe, under way or returned, the GET has been sent exactly
\* when the HEAD has failed, and after it; a probe whose HEAD succeeded has
\* sent no GET; there are at most two requests, the HEAD first.
C19_GetOnlyAfterHeadFails ==
  /\ \A w \in InFlight : HeadThenGet(workers[w].attempts)
  /\ lastProbe # Empty => HeadThenGet(lastProbe.attempts)

\* One probe has returned after its GET while another is waiting for its
\* HEAD and a third for its GET.
C19_Witness ==
  /\ ProbeReturned
  /\ Len(LastAttempts) = 2
  /\ \E w \in InFlight : Len(workers[w].attempts) = 1
  /\ \E w \in InFlight : Len(workers[w].attempts) = 2

-----------------------------------------------------------------------------
(* The order of completion.                                                *)

\* The results of this run put in the order the items were dispatched in:
\* what checkResources returns in the run with the same input and the same
\* outcome for every dispatched item where the probes complete in that order.
InDispatchOrder ==
  [ k \in 1..Len(results) |->
      results[CHOOSE j \in 1..Len(completed) : completed[j] = k] ]

\* C20: the final list, the summary and the recommendations of a run are
\* those of the run with the same input and the same probe outcomes whose
\* probes complete in dispatch order: the order of completion has no effect.
C20_CompletionOrderIrrelevant ==
  pc = "done" =>
    LET final == FinalResources(resources, InDispatchOrder)
    IN  /\ finalResources = final
        /\ summary = Summary(final, toCheckLimited)
        /\ recommendations = Recommendations(Summary(final, toCheckLimited))

-----------------------------------------------------------------------------
(* The counts of the summary against the final list.                       *)

\* C21: the summary's `checked` is the number of final entries with status
\* ok or error.
C21_CheckedCountsCheckedEntries ==
  pc = "done" =>
    summary.checked = Cardinality(WithStatus({"ok", "error"}))

\* Positions of the final list whose duplicateOf is set.
WithDuplicateOf ==
  { i \in DOMAIN finalResources : finalResources[i].duplicateOf # NullKey }

\* C22: the summary's duplicateCount is the number of final entries whose
\* duplicateOf is set.
C22_DuplicateCountCountsDuplicateOf ==
  pc = "done" =>
    summary.duplicateCount = Cardinality(WithDuplicateOf)

-----------------------------------------------------------------------------
(* The items of the pool.                                                  *)

\* C23: from the call of checkResources on, the items in the queue, the
\* probes under way and the results collected add up to the items passed in;
\* the list passed in stays the list the handler built, the items taken off
\* the queue followed by the items still in it.
C23_ItemsConserved ==
  pc # "start" =>
    /\ Len(queue) + Cardinality(InFlight) + Len(results) = Len(toCheckLimited)
    /\ toCheckLimited = ToCheckLimited(resources)
    /\ probes \o queue = toCheckLimited

\* Three items passed in, one result collected, two probes under way.
C23_Witness ==
  /\ pc = "checking"
  /\ Len(toCheckLimited) = 3
  /\ Len(results) = 1
  /\ Cardinality(InFlight) = 2
  /\ queue = Empty

====
